---- MODULE Spec2Model ----
(***************************************************************************)
(* drizzle-demo: the scripted walkthrough (index.ts) and the user manager  *)
(* (usermanager.ts) as two callers of one PostgreSQL store holding the     *)
(* users table of drizzle/schema.ts.                                        *)
(*                                                                         *)
(* The store is modelled by what the schema asks of it: a serial primary   *)
(* key, unique username, unique email, age defaulting to 0, statements     *)
(* that apply wholly or not at all, and read-committed transactions.       *)
(* The script is modelled in its stepwise version; the earlier version has *)
(* the same transaction (insert, update by email, return).                 *)
(***************************************************************************)
EXTENDS Integers, Sequences, FiniteSets, TLC

VARIABLES
  users,              \* committed rows of the users table
  seq,                \* next value of the serial sequence users_id_seq
  pc,                 \* position of the walkthrough script
  txState,            \* state of each transaction of the script
  txIns,              \* row versions written by the open transaction, not yet committed
  txDel,              \* ids of committed rows the open transaction has replaced or removed
  txIds,              \* ids assigned to rows inserted by the body of each transaction
  txOps,              \* number of operations executed by the body of each transaction
  i,                  \* loop counter of the filler transaction
  newUser,            \* const newUser of the transaction body
  updatedUser,        \* const updatedUser of the transaction body
  transactionResult,  \* const transactionResult
  out,                \* last value the script logged
  mpc,                \* position of the user manager
  mId,                \* id entered in updateUser
  mFound,             \* foundUser of updateUser
  mOut,               \* last message and table the user manager printed
  mReadOpen,          \* transactions holding uncommitted inserts when the manager last read
  mOps,               \* number of menu actions the user manager has started
  categories,         \* rows of the categories table
  tasks,              \* rows of the tasks table
  arg                 \* input of the statement under test (SpecBatch, SpecPage)

vars == <<users, seq, pc, txState, txIns, txDel, txIds, txOps, i, newUser,
          updatedUser, transactionResult, out, mpc, mId, mFound, mOut, mReadOpen,
          mOps, categories, tasks, arg>>

storeVars  == <<users, seq, txIns, txDel>>
scriptVars == <<pc, txState, txIds, txOps, i, newUser, updatedUser, transactionResult, out>>
mgrVars    == <<mpc, mId, mFound, mOut, mReadOpen, mOps, arg>>
taskVars   == <<categories, tasks>>

----------------------------------------------------------------------------
(* Bounds *)

MaxOps == 2          \* menu actions the user manager starts
MaxFiller == 2       \* filler inserts of step 13a (the script loops to 20)
MaxBatch == 2        \* records of one batched insert (SpecBatch)
MaxRows == 3         \* users in the table that is paginated (SpecPage)
MaxLimit == 2        \* largest page size (SpecPage)

----------------------------------------------------------------------------
(* Schema: users *)

DefaultAge == 0

NoValue == <<>>

\* A const of the script before its statement has resolved, and once it has
Undefined == [defined |-> FALSE]
Resolved(v) == [defined |-> TRUE, value |-> v]

\* The row the store creates for one element of .values(...): id from the
\* sequence, age from the column default when the field is left out.
MakeRow(v, id) ==
  [id |-> id, username |-> v.username, email |-> v.email,
   age |-> IF "age" \in DOMAIN v THEN v.age ELSE DefaultAge]

\* KeyClash as it would be were email not declared unique
KeyClashNoEmail(a, b) == a.id = b.id \/ a.username = b.username

\* primary key on id, unique on username, unique on email
KeyClash(a, b) == a.id = b.id \/ a.username = b.username \/ a.email = b.email

UniqueRows(rows) == \A a \in rows : \A b \in rows : a # b => ~KeyClash(a, b)

----------------------------------------------------------------------------
(* Predicates of drizzle-orm as used by the two programs *)

All == [op |-> "all"]
Eq(f, v) == [op |-> "eq", field |-> f, value |-> v]
Gt(f, v) == [op |-> "gt", field |-> f, value |-> v]
Lt(f, v) == [op |-> "lt", field |-> f, value |-> v]
Gte(f, v) == [op |-> "gte", field |-> f, value |-> v]
Lte(f, v) == [op |-> "lte", field |-> f, value |-> v]
Like(f, pattern) == [op |-> "like", field |-> f, value |-> pattern]
And(p, q) == [op |-> "and", left |-> p, right |-> q]
Or(p, q) == [op |-> "or", left |-> p, right |-> q]

\* SQL LIKE: % matches any run of characters, _ exactly one, anything else itself.
RECURSIVE LikeMatch(_, _)
LikeMatch(p, s) ==
  IF Len(p) = 0 THEN Len(s) = 0
  ELSE LET c  == SubSeq(p, 1, 1)
           pr == SubSeq(p, 2, Len(p))
           sr == SubSeq(s, 2, Len(s))
       IN  IF c = "%" THEN LikeMatch(pr, s) \/ (Len(s) > 0 /\ LikeMatch(p, sr))
           ELSE IF c = "_" THEN Len(s) > 0 /\ LikeMatch(pr, sr)
           ELSE Len(s) > 0 /\ SubSeq(s, 1, 1) = c /\ LikeMatch(pr, sr)

RECURSIVE Eval(_, _)
Eval(p, row) ==
  CASE p.op = "all"  -> TRUE
    [] p.op = "eq"   -> row[p.field] = p.value
    [] p.op = "gt"   -> row[p.field] > p.value
    [] p.op = "lt"   -> row[p.field] < p.value
    [] p.op = "gte"  -> row[p.field] >= p.value
    [] p.op = "lte"  -> row[p.field] <= p.value
    [] p.op = "like" -> LikeMatch(p.value, row[p.field])
    [] p.op = "and"  -> Eval(p.left, row) /\ Eval(p.right, row)
    [] p.op = "or"   -> Eval(p.left, row) \/ Eval(p.right, row)

----------------------------------------------------------------------------
(* Statements against a set of visible rows *)

\* select().from(users).where(p)
Select(visible, p) == {r \in visible : Eval(p, r)}

SeqToSet(s) == {s[k] : k \in 1..Len(s)}

\* insert(users).values(vals).returning(): rows are built one at a time, each
\* taking the next sequence value; the first row that breaks a constraint
\* fails the whole statement. Values drawn from the sequence stay drawn.
RECURSIVE InsertFrom(_, _, _, _, _)
InsertFrom(visible, vals, s, k, acc) ==
  IF k > Len(vals) THEN [ok |-> TRUE, rows |-> acc, seq |-> s]
  ELSE LET row == MakeRow(vals[k], s) IN
       IF \E r \in visible \cup SeqToSet(acc) : KeyClash(row, r)
       THEN [ok |-> FALSE, rows |-> <<>>, seq |-> s + 1]
       ELSE InsertFrom(visible, vals, s + 1, k + 1, Append(acc, row))

\* InsertRows with ids taken as one more than the largest id in the table
\* instead of from the sequence
InsertRowsMaxId(visible, vals, s) ==
  LET top == IF visible = {} THEN 1
             ELSE 1 + (CHOOSE m \in {r.id : r \in visible} : \A r \in visible : r.id <= m)
  IN  InsertFrom(visible, vals, top, 1, <<>>)

InsertRows(visible, vals, s) == InsertFrom(visible, vals, s, 1, <<>>)

\* .set(payload): the fields of the payload replace the row's, the others stay
Patch(row, payload) ==
  [f \in DOMAIN row |-> IF f \in DOMAIN payload THEN payload[f] ELSE row[f]]

\* UpdateRows as it would be did an update that matches nothing raise
UpdateRowsStrict(visible, payload, p) ==
  LET old == Select(visible, p)
      new == {Patch(r, payload) : r \in old}
  IN  [ok  |-> /\ old # {}
               /\ Cardinality(new) = Cardinality(old)
               /\ UniqueRows((visible \ old) \cup new),
       old |-> old, rows |-> new]

\* update(users).set(payload).where(p).returning()
UpdateRows(visible, payload, p) ==
  LET old == Select(visible, p)
      new == {Patch(r, payload) : r \in old}
  IN  [ok  |-> /\ Cardinality(new) = Cardinality(old)
               /\ UniqueRows((visible \ old) \cup new),
       old |-> old, rows |-> new]

\* DeleteRows as it would be did a delete remove one matching row, not all
DeleteRowsOne(visible, p) ==
  LET hit == Select(visible, p)
  IN  [old |-> IF hit = {} THEN {} ELSE {CHOOSE r \in hit : TRUE}]

\* delete(users).where(p).returning()
DeleteRows(visible, p) == [old |-> Select(visible, p)]

----------------------------------------------------------------------------
(* Ordering and pagination *)

RECURSIVE Perms(_)
Perms(S) ==
  IF S = {} THEN {<<>>}
  ELSE UNION {{<<x>> \o q : q \in Perms(S \ {x})} : x \in S}

MaxAge(rows) == CHOOSE m \in {r.age : r \in rows} : \A r \in rows : r.age <= m

\* orderBy(desc(users.age)): every order the store may return. Rows of equal
\* age have no order of their own, so each arrangement of them is possible.
RECURSIVE OrderByAgeDesc(_)
OrderByAgeDesc(rows) ==
  IF rows = {} THEN {<<>>}
  ELSE LET top == {r \in rows : r.age = MaxAge(rows)}
       IN  {p \o q : p \in Perms(top), q \in OrderByAgeDesc(rows \ top)}

Min(a, b) == IF a <= b THEN a ELSE b

\* .limit(L).offset(O) over an ordered result
LimitOffset(s, L, O) == SubSeq(s, O + 1, Min(Len(s), O + L))

\* select().from(users).orderBy(desc(users.age)).limit(L).offset(O): every
\* result the store may return
Paginated(rows, L, O) == {LimitOffset(o, L, O) : o \in OrderByAgeDesc(rows)}

----------------------------------------------------------------------------
(* Connections: db runs each statement in its own transaction; tx is the    *)
(* handle db.transaction passes to its body.                                *)

Txs == {"t8", "t13a"}

\* Visible as it would be did statements read uncommitted rows
VisibleDirty(h) == {u \in users : u.id \notin txDel} \cup txIns

\* Visible as it would be did the transaction not see its own writes
VisibleCommittedOnly(h) == users

\* Rows a statement sees: committed rows, and through tx also the open
\* transaction's own writes.
Visible(h) ==
  IF h = "tx" THEN {u \in users : u.id \notin txDel} \cup txIns ELSE users

\* A statement on db that touches a row the open transaction has written, or a
\* key it has taken, waits for that transaction to end.
Waits(old, new) ==
  \/ \E n \in new : \E t \in txIns : KeyClash(n, t)
  \/ \E o \in old : o.id \in txDel

\* Replace the row versions old by new through handle h.
Write(h, old, new) ==
  IF h = "tx"
  THEN /\ txIns' = (txIns \ old) \cup new
       /\ txDel' = txDel \cup {r.id : r \in old \cap users}
       /\ users' = users
  ELSE /\ ~Waits(old, new)
       /\ users' = (users \ old) \cup new
       /\ UNCHANGED <<txIns, txDel>>

----------------------------------------------------------------------------
(* index.ts: the walkthrough *)

Batch ==
  << [email |-> "johndoe@example.com", username |-> "johndoe", age |-> 30],
     [email |-> "janedoe@example.com", username |-> "janedoe", age |-> 25],
     [email |-> "alice@example.com",   username |-> "alice",   age |-> 45],
     [email |-> "bob@example.com",     username |-> "bob",     age |-> 60],
     [email |-> "charlie@example.com", username |-> "charlie", age |-> 47],
     [email |-> "dave@example.com",    username |-> "dave",    age |-> 16],
     [email |-> "eve@example.com",     username |-> "eve",     age |-> 15] >>

TxEmail == "transaction@example.com"
TxName == "Transaction User"
UpdatedTxName == "Updated Transaction User"

PageSize == 4
CurrentPage == 2

\* Math.floor(Math.random() * 50) + 15 lies in 15..64; the two ends stand for it
FillerAges == {15, 64}

\* BodyHandle as it would be did the bodies call db instead of tx
BodyHandleDb == "db"

\* The handle the transaction bodies issue their statements on.
BodyHandle == "tx"

\* A rejected statement outside any handler ends the script.
Step1 ==
  /\ pc = "s1"
  /\ LET res == DeleteRows(Visible("db"), All) IN
       /\ Write("db", res.old, {})
       /\ out' = NoValue
  /\ pc' = "s2"
  /\ UNCHANGED <<seq, txState, txIds, txOps, i, newUser, updatedUser, transactionResult>>
  /\ UNCHANGED mgrVars
  /\ UNCHANGED taskVars

\* insert(users).values(vals).returning() on db, outside a transaction
InsertStep(at, vals, next) ==
  /\ pc = at
  /\ LET res == InsertRows(Visible("db"), vals, seq) IN
       /\ seq' = res.seq
       /\ IF res.ok
          THEN /\ Write("db", {}, SeqToSet(res.rows))
               /\ out' = res.rows
               /\ pc' = next
          ELSE /\ UNCHANGED <<users, txIns, txDel, out>>
               /\ pc' = "crashed"
  /\ UNCHANGED <<txState, txIds, txOps, i, newUser, updatedUser, transactionResult>>
  /\ UNCHANGED mgrVars
  /\ UNCHANGED taskVars

Step2 == InsertStep("s2", Batch, "s3")

\* Steps 3, 4, 7, 9 and 11 only read and log.
ReadStep(at, p, next) ==
  /\ pc = at
  /\ out' = Select(Visible("db"), p)
  /\ pc' = next
  /\ UNCHANGED storeVars
  /\ UNCHANGED <<txState, txIds, txOps, i, newUser, updatedUser, transactionResult>>
  /\ UNCHANGED mgrVars
  /\ UNCHANGED taskVars

Step3 == ReadStep("s3", All, "s4")
Step4 == ReadStep("s4", Eq("email", "bob@example.com"), "s5")

\* update(...).set(payload).where(p).returning() on db, outside a transaction
UpdateStep(at, payload, p, next) ==
  /\ pc = at
  /\ LET res == UpdateRows(Visible("db"), payload, p) IN
       IF res.ok
       THEN /\ Write("db", res.old, res.rows)
            /\ out' = res.rows
            /\ pc' = next
       ELSE /\ UNCHANGED <<users, txIns, txDel, out>>
            /\ pc' = "crashed"
  /\ UNCHANGED <<seq, txState, txIds, txOps, i, newUser, updatedUser, transactionResult>>
  /\ UNCHANGED mgrVars
  /\ UNCHANGED taskVars

Step5 ==
  UpdateStep("s5", [username |-> "Steven", email |-> "steven@example.com"],
             Eq("email", "charlie@example.com"), "s6")

\* delete(users).where(p).returning() on db, outside a transaction
DeleteStep(at, p, next) ==
  /\ pc = at
  /\ LET res == DeleteRows(Visible("db"), p) IN
       /\ Write("db", res.old, {})
       /\ out' = res.old
  /\ pc' = next
  /\ UNCHANGED <<seq, txState, txIds, txOps, i, newUser, updatedUser, transactionResult>>
  /\ UNCHANGED mgrVars
  /\ UNCHANGED taskVars

Step6 == DeleteStep("s6", Eq("email", "bob@example.com"), "s7")

Step7 == ReadStep("s7", All, "s8_begin")

\* db.transaction(async (tx) => ...): BEGIN
Begin(t, at, next) ==
  /\ pc = at
  /\ txState[t] = "NONE"
  /\ txState' = [txState EXCEPT ![t] = "STARTED"]
  /\ pc' = next
  /\ UNCHANGED storeVars
  /\ UNCHANGED <<txIds, txOps, i, newUser, updatedUser, transactionResult, out>>
  /\ UNCHANGED mgrVars
  /\ UNCHANGED taskVars

\* Commit as it would be did the transaction end without publishing its writes
CommitDiscard(t, at, next) ==
  /\ pc = at
  /\ txState[t] = "STARTED"
  /\ txIns' = {}
  /\ txDel' = {}
  /\ txState' = [txState EXCEPT ![t] = "COMMITTED"]
  /\ pc' = next
  /\ UNCHANGED <<users, seq, txIds, txOps, i, newUser, updatedUser, out>>
  /\ UNCHANGED mgrVars
  /\ UNCHANGED taskVars

\* The body returned: COMMIT.
Commit(t, at, next) ==
  /\ pc = at
  /\ txState[t] = "STARTED"
  /\ users' = {u \in users : u.id \notin txDel} \cup txIns
  /\ txIns' = {}
  /\ txDel' = {}
  /\ txState' = [txState EXCEPT ![t] = "COMMITTED"]
  /\ pc' = next
  /\ UNCHANGED <<seq, txIds, txOps, i, newUser, updatedUser, out>>
  /\ UNCHANGED mgrVars
  /\ UNCHANGED taskVars

\* The body threw: ROLLBACK, and db.transaction rejects with the error, which
\* nothing in the script catches.
Rollback(t, at) ==
  /\ pc = at
  /\ txState[t] = "STARTED"
  /\ txIns' = {}
  /\ txDel' = {}
  /\ txState' = [txState EXCEPT ![t] = "ABORTED"]
  /\ pc' = "crashed"
  /\ UNCHANGED <<users, seq, txIds, txOps, i, newUser, updatedUser, transactionResult, out>>
  /\ UNCHANGED mgrVars
  /\ UNCHANGED taskVars

\* One insert(users).values(v) of a transaction body.
BodyInsert(t, v) ==
  LET res == InsertRows(Visible(BodyHandle), <<v>>, seq) IN
    /\ seq' = res.seq
    /\ txOps' = [txOps EXCEPT ![t] = @ + 1]
    /\ IF res.ok
       THEN /\ Write(BodyHandle, {}, SeqToSet(res.rows))
            /\ txIds' = [txIds EXCEPT ![t] = @ \cup {r.id : r \in SeqToSet(res.rows)}]
       ELSE UNCHANGED <<users, txIns, txDel, txIds>>

Step8Begin == Begin("t8", "s8_begin", "s8_insert")

Step8Insert ==
  /\ pc = "s8_insert"
  /\ BodyInsert("t8", [email |-> TxEmail, username |-> TxName])
  /\ LET res == InsertRows(Visible(BodyHandle), <<[email |-> TxEmail, username |-> TxName]>>, seq) IN
       IF res.ok
       THEN /\ newUser' = res.rows
            /\ pc' = "s8_update"
       ELSE /\ UNCHANGED newUser
            /\ pc' = "s8_rollback"
  /\ UNCHANGED <<txState, i, updatedUser, transactionResult, out>>
  /\ UNCHANGED mgrVars
  /\ UNCHANGED taskVars

Step8Update ==
  /\ pc = "s8_update"
  /\ LET res == UpdateRows(Visible(BodyHandle), [username |-> UpdatedTxName],
                           Eq("email", TxEmail)) IN
       IF res.ok
       THEN /\ Write(BodyHandle, res.old, res.rows)
            /\ updatedUser' = res.rows
            /\ pc' = "s8_return"
       ELSE /\ UNCHANGED <<users, txIns, txDel, updatedUser>>
            /\ pc' = "s8_rollback"
  /\ txOps' = [txOps EXCEPT !["t8"] = @ + 1]
  /\ UNCHANGED <<seq, txState, txIds, i, newUser, transactionResult, out>>
  /\ UNCHANGED mgrVars
  /\ UNCHANGED taskVars

\* return updatedUser: db.transaction commits and resolves to the body's value
Step8Commit ==
  /\ Commit("t8", "s8_return", "s9")
  /\ transactionResult' = Resolved(updatedUser)

Step8Rollback == Rollback("t8", "s8_rollback")

Step9 == ReadStep("s9", All, "s10")

Step10 == UpdateStep("s10", [age |-> 25], Eq("username", "eve"), "s11")

Step11 ==
  ReadStep("s11", And(Like("username", "%eve%"), And(Gt("age", 18), Lt("age", 30))), "s12")

Step12 ==
  /\ pc = "s12"
  /\ out' \in OrderByAgeDesc(Visible("db"))
  /\ pc' = "s13a_begin"
  /\ UNCHANGED storeVars
  /\ UNCHANGED <<txState, txIds, txOps, i, newUser, updatedUser, transactionResult>>
  /\ UNCHANGED mgrVars
  /\ UNCHANGED taskVars

Step13aBegin ==
  /\ Begin("t13a", "s13a_begin", "s13a_loop")

\* for (let i = 1; i <= n; i++) await tx.insert(users).values({...})
Step13aInsert ==
  /\ pc = "s13a_loop"
  /\ i <= MaxFiller
  /\ \E age \in FillerAges :
       LET v == [email |-> "random" \o ToString(i) \o "@example.com",
                 username |-> "randomUser" \o ToString(i), age |-> age] IN
         /\ BodyInsert("t13a", v)
         /\ IF InsertRows(Visible(BodyHandle), <<v>>, seq).ok
            THEN /\ i' = i + 1
                 /\ pc' = pc
            ELSE /\ UNCHANGED i
                 /\ pc' = "s13a_rollback"
  /\ UNCHANGED <<txState, newUser, updatedUser, transactionResult, out>>
  /\ UNCHANGED mgrVars
  /\ UNCHANGED taskVars

\* Step13aCommit as it would be were the inserts of the loop not awaited:
\* the body returns, and the transaction commits, while inserts are still to run
Step13aCommitEarly ==
  /\ Commit("t13a", "s13a_loop", "s13a_loop")
  /\ UNCHANGED transactionResult

\* the loop ended: the body returns undefined, which the script discards
Step13aCommit ==
  /\ i > MaxFiller
  /\ Commit("t13a", "s13a_loop", "s13b")
  /\ UNCHANGED transactionResult

Step13aRollback == Rollback("t13a", "s13a_rollback")

Step13b ==
  /\ pc = "s13b"
  /\ out' \in Paginated(Visible("db"), PageSize, (CurrentPage - 1) * PageSize)
  /\ pc' = "done"
  /\ UNCHANGED storeVars
  /\ UNCHANGED <<txState, txIds, txOps, i, newUser, updatedUser, transactionResult>>
  /\ UNCHANGED mgrVars
  /\ UNCHANGED taskVars

Script ==
  \/ Step1 \/ Step2 \/ Step3 \/ Step4 \/ Step5 \/ Step6 \/ Step7
  \/ Step8Begin \/ Step8Insert \/ Step8Update \/ Step8Commit \/ Step8Rollback
  \/ Step9 \/ Step10 \/ Step11 \/ Step12
  \/ Step13aBegin \/ Step13aInsert \/ Step13aCommit \/ Step13aRollback \/ Step13b

----------------------------------------------------------------------------
(* usermanager.ts: the user manager, every statement on its own db *)

\* What is typed at the prompts
MgrEmails == {"mgr@example.com", "transaction@example.com"}
MgrNames == {"Updated Transaction User", "randomUser1"}
MgrAges == {30}
\* ids: the first the sequence hands out, and the one bob gets when the
\* batch of step 2 takes 1 to 7
MgrIds == {1, 4}
SearchTerms == {"eve", "_"}
SearchMin == {18}
SearchMax == {30}

Printed(msg, rows) == [msg |-> msg, rows |-> rows]

\* The transactions that are open and have inserted rows not yet committed.
UncommittedInserts == {t \in Txs : txState[t] = "STARTED" /\ txIds[t] # {}}

\* The manager reads the users table and prints what it got.
MgrRead(msg, p) ==
  /\ mOut' = Printed(msg, Select(Visible("db"), p))
  /\ mReadOpen' = UncommittedInserts

\* A menu action starts with fresh locals.
Fresh == mId' = 0 /\ mFound' = NoValue

\* A menu action is chosen in mainMenu
AtMenu == mpc = "menu" /\ mOps < MaxOps

\* A rejected statement is caught nowhere: the await in mainMenu rethrows
\* and the program ends.
MgrCrash ==
  /\ mpc' = "crashed"
  /\ mOut' = Printed("error", {})

viewAllUsers ==
  /\ AtMenu
  /\ mOps' = mOps + 1
  /\ MgrRead("view", All)
  /\ Fresh
  /\ UNCHANGED <<mpc, arg>>
  /\ UNCHANGED storeVars
  /\ UNCHANGED scriptVars
  /\ UNCHANGED taskVars

addUser ==
  /\ AtMenu
  /\ mOps' = mOps + 1
  /\ Fresh
  /\ \E email \in MgrEmails, username \in MgrNames, age \in MgrAges :
       LET res == InsertRows(Visible("db"),
                             <<[email |-> email, username |-> username, age |-> age]>>, seq) IN
         /\ seq' = res.seq
         /\ IF res.ok
            THEN /\ Write("db", {}, SeqToSet(res.rows))
                 /\ mOut' = Printed("created", SeqToSet(res.rows))
                 /\ UNCHANGED mpc
            ELSE /\ UNCHANGED <<users, txIns, txDel>>
                 /\ MgrCrash
  /\ UNCHANGED <<mReadOpen, arg>>
  /\ UNCHANGED scriptVars
  /\ UNCHANGED taskVars

\* updateUser, up to the prompt for the id: viewAllUsers()
updateUserView ==
  /\ AtMenu
  /\ mOps' = mOps + 1
  /\ MgrRead("view", All)
  /\ Fresh
  /\ mpc' = "upd_id"
  /\ UNCHANGED arg
  /\ UNCHANGED storeVars
  /\ UNCHANGED scriptVars
  /\ UNCHANGED taskVars

\* updateUser: the id is entered and the user selected
updateUserSelect ==
  /\ mpc = "upd_id"
  /\ \E id \in MgrIds :
       LET target == Select(Visible("db"), Eq("id", id)) IN
         /\ mId' = id
         /\ IF target = {}
            THEN /\ mOut' = Printed("notfound", {})
                 /\ mpc' = "menu"
                 /\ UNCHANGED mFound
            ELSE /\ mFound' = CHOOSE r \in target : TRUE
                 /\ mpc' = "upd_write"
                 /\ UNCHANGED mOut
  /\ UNCHANGED <<mReadOpen, mOps, arg>>
  /\ UNCHANGED storeVars
  /\ UNCHANGED scriptVars
  /\ UNCHANGED taskVars

\* The update payload of updateUser: username always, email when not empty,
\* age when defined.
UpdatePayload(username, newEmail, age) ==
  IF newEmail # ""
  THEN [username |-> username, email |-> newEmail, age |-> age]
  ELSE [username |-> username, age |-> age]

\* updateUserWrite as it would be did it save the user it had selected, with
\* the new values, instead of updating by id
updateUserWriteSave ==
  /\ mpc = "upd_write"
  /\ \E username \in MgrNames \cup {mFound.username},
        newEmail \in MgrEmails \cup {mFound.email},
        age \in MgrAges \cup {mFound.age} :
       LET old   == Select(Visible("db"), Eq("id", mId))
           saved == Patch(mFound, UpdatePayload(username, newEmail, age)) IN
         IF UniqueRows((Visible("db") \ old) \cup {saved})
         THEN /\ Write("db", old, {saved})
              /\ mOut' = Printed("updated", {saved})
              /\ mpc' = "menu"
         ELSE /\ UNCHANGED <<users, txIns, txDel>>
              /\ MgrCrash
  /\ UNCHANGED <<seq, mId, mFound, mReadOpen, mOps, arg>>
  /\ UNCHANGED scriptVars
  /\ UNCHANGED taskVars

\* updateUser: the new values are entered (the current ones are the defaults)
\* and the update is issued
updateUserWrite ==
  /\ mpc = "upd_write"
  /\ \E username \in MgrNames \cup {mFound.username},
        newEmail \in MgrEmails \cup {mFound.email},
        age \in MgrAges \cup {mFound.age} :
       LET res == UpdateRows(Visible("db"), UpdatePayload(username, newEmail, age),
                             Eq("id", mId)) IN
         IF res.ok
         THEN /\ Write("db", res.old, res.rows)
              /\ mOut' = IF Cardinality(res.rows) > 0
                         THEN Printed("updated", res.rows)
                         ELSE Printed("notfound", {})
              /\ mpc' = "menu"
         ELSE /\ UNCHANGED <<users, txIns, txDel>>
              /\ MgrCrash
  /\ UNCHANGED <<seq, mId, mFound, mReadOpen, mOps, arg>>
  /\ UNCHANGED scriptVars
  /\ UNCHANGED taskVars

\* deleteUser, up to the prompt for the id: viewAllUsers()
deleteUserView ==
  /\ AtMenu
  /\ mOps' = mOps + 1
  /\ MgrRead("view", All)
  /\ Fresh
  /\ mpc' = "del_id"
  /\ UNCHANGED arg
  /\ UNCHANGED storeVars
  /\ UNCHANGED scriptVars
  /\ UNCHANGED taskVars

\* deleteUserWrite as it would be were the delete issued without its where
deleteUserWriteAll ==
  /\ mpc = "del_id"
  /\ \E id \in MgrIds :
       LET res == DeleteRows(Visible("db"), All) IN
         /\ mId' = id
         /\ Write("db", res.old, {})
         /\ mOut' = IF Cardinality(res.old) > 0
                    THEN Printed("deleted", res.old)
                    ELSE Printed("notfound", {})
  /\ mpc' = "menu"
  /\ UNCHANGED <<seq, mFound, mReadOpen, mOps, arg>>
  /\ UNCHANGED scriptVars
  /\ UNCHANGED taskVars

\* deleteUser: the id is entered and the delete is issued
deleteUserWrite ==
  /\ mpc = "del_id"
  /\ \E id \in MgrIds :
       LET res == DeleteRows(Visible("db"), Eq("id", id)) IN
         /\ mId' = id
         /\ Write("db", res.old, {})
         /\ mOut' = IF Cardinality(res.old) > 0
                    THEN Printed("deleted", res.old)
                    ELSE Printed("notfound", {})
  /\ mpc' = "menu"
  /\ UNCHANGED <<seq, mFound, mReadOpen, mOps, arg>>
  /\ UNCHANGED scriptVars
  /\ UNCHANGED taskVars

\* The filter searchUser builds from what was typed
SearchPredicate(username, minAge, maxAge) ==
  And(Like("username", "%" \o username \o "%"),
      And(Gte("age", minAge), Lte("age", maxAge)))

searchUser ==
  /\ AtMenu
  /\ mOps' = mOps + 1
  /\ Fresh
  /\ \E username \in SearchTerms, minAge \in SearchMin :
       \E maxAge \in {m \in SearchMax : m >= minAge} :
         MgrRead("search", SearchPredicate(username, minAge, maxAge))
  /\ UNCHANGED <<mpc, arg>>
  /\ UNCHANGED storeVars
  /\ UNCHANGED scriptVars
  /\ UNCHANGED taskVars

Manager ==
  \/ viewAllUsers \/ addUser \/ updateUserView \/ updateUserSelect \/ updateUserWrite
  \/ deleteUserView \/ deleteUserWrite \/ searchUser

----------------------------------------------------------------------------

Init ==
  /\ users = {}
  /\ seq = 1
  /\ pc = "s1"
  /\ txState = [t \in Txs |-> "NONE"]
  /\ txIns = {}
  /\ txDel = {}
  /\ txIds = [t \in Txs |-> {}]
  /\ txOps = [t \in Txs |-> 0]
  /\ i = 1
  /\ newUser = NoValue
  /\ updatedUser = {}
  /\ transactionResult = Undefined
  /\ out = NoValue
  /\ mpc = "menu"
  /\ mId = 0
  /\ mFound = NoValue
  /\ mOut = Printed("none", {})
  /\ mReadOpen = {}
  /\ mOps = 0
  /\ categories = {}
  /\ tasks = {}
  /\ arg = NoValue

Next == Script \/ Manager

Spec == Init /\ [][Next]_vars

----------------------------------------------------------------------------
(* Properties of the walkthrough and the user manager (Spec) *)

Ids(rows) == {r.id : r \in rows}

Terminal == {"COMMITTED", "ABORTED"}

\* C1: transaction atomicity. No statement of the step-8 body, and not the
\* rollback, changes the committed users table; and at the rollback that
\* follows a successful insert, a find for the inserted user (by email or by
\* id) on the committed table is empty, the transaction holds no writes any
\* more, the script ends on the error, and transactionResult has no value.
C1_Atomicity ==
  [][ /\ (pc \in {"s8_insert", "s8_update", "s8_rollback"} /\ pc' # pc)
           => users' = users
      /\ (pc = "s8_rollback" /\ pc' # pc /\ newUser # NoValue)
           => /\ pc' = "crashed"
              /\ Select(users', Eq("email", TxEmail)) = {}
              /\ Ids(users') \cap txIds["t8"] = {}
              /\ txIns' = {}
              /\ transactionResult' = Undefined ]_vars

\* The body of step 8 inserted its user, then raised, and the rollback ran.
C1_Witness ==
  /\ pc = "crashed"
  /\ txState["t8"] = "ABORTED"
  /\ newUser # NoValue

\* C2: commit visibility. When the step-8 body returns, the commit puts the
\* inserted user with its updated username into the committed table, where a
\* find by its email returns exactly that record; transactionResult is the
\* value the body returned; and afterwards no step of the script removes it.
C2_CommitVisible ==
  [][ /\ (pc = "s8_return" /\ pc' = "s9")
           => /\ transactionResult' = Resolved(updatedUser)
              /\ Cardinality(updatedUser) = 1
              /\ Select(users', Eq("email", TxEmail)) = updatedUser
              /\ \A r \in updatedUser : r.username = UpdatedTxName
      /\ (txState["t8"] = "COMMITTED" /\ pc' # pc)
           => (updatedUser \cap users) \subseteq users' ]_vars

\* The step-8 transaction has committed and its result is in transactionResult.
C2_Witness ==
  /\ pc = "s9"
  /\ txState["t8"] = "COMMITTED"
  /\ transactionResult = Resolved(updatedUser)
  /\ updatedUser \subseteq users

\* Rows inserted by a transaction that has not committed are neither in the
\* committed table nor in what the user manager last read.
C3_ReadsSeeNone ==
  \A t \in Txs :
    (txState[t] # "COMMITTED")
      => /\ Ids(users) \cap txIds[t] = {}
         /\ Ids(mOut.rows) \cap txIds[t] = {}

\* C3: isolation. A row inserted by a transaction is in the committed table,
\* and in what the user manager last read, only if that transaction has
\* committed; and the commit publishes every row the transaction inserted.
C3_Isolation ==
  /\ []C3_ReadsSeeNone
  /\ [][ \A t \in Txs :
           (txState[t] = "STARTED" /\ txState'[t] = "COMMITTED")
             => txIds[t] \subseteq Ids(users') ]_vars

\* The user manager listed the users while the filler transaction held
\* uncommitted inserts.
C3_Witness ==
  /\ "t13a" \in mReadOpen
  /\ mOut.msg = "view"
  /\ mOut.rows # {}

\* C4: per-transaction state machine. A transaction goes from not begun to
\* STARTED, from STARTED to COMMITTED or ABORTED, and leaves neither of
\* these; its body executes operations only while it is STARTED; and
\* uncommitted writes exist only while a transaction is STARTED.
C4_Machine ==
  /\ [][ \A t \in Txs :
           /\ txState[t] = "NONE" => txState'[t] \in {"NONE", "STARTED"}
           /\ txState[t] = "STARTED" => txState'[t] \in {"STARTED"} \cup Terminal
           /\ txState[t] \in Terminal => txState'[t] = txState[t]
           /\ (txOps'[t] # txOps[t] \/ txIds'[t] # txIds[t])
                => (txState[t] = "STARTED" /\ txState'[t] = "STARTED") ]_vars
  /\ []((txIns # {} \/ txDel # {}) => \E t \in Txs : txState[t] = "STARTED")

\* One transaction has committed and the other has aborted.
C4_Witness ==
  /\ txState["t8"] = "COMMITTED"
  /\ txState["t13a"] = "ABORTED"
  /\ txOps["t8"] = 2
  /\ txOps["t13a"] > 0

\* C5: in-transaction ordering. When the step-8 body returns, it has run its
\* two operations, and the update by email matched exactly the record the
\* insert before it created: same id, the new username, the default age.
\* While a transaction is open, each row it inserted is visible through tx.
C5_Ordering ==
  /\ pc = "s8_return"
       => /\ txOps["t8"] = 2
          /\ Len(newUser) = 1
          /\ newUser[1].username = TxName
          /\ updatedUser = {[id |-> newUser[1].id, username |-> UpdatedTxName,
                             email |-> TxEmail, age |-> DefaultAge]}
  /\ \A t \in Txs : txState[t] = "STARTED" => txIds[t] \subseteq Ids(Visible("tx"))

\* The update of the step-8 body has returned.
C5_Witness ==
  /\ pc = "s8_return"
  /\ updatedUser # {}

----------------------------------------------------------------------------
(* Properties of the walkthrough and the user manager (Spec), continued *)

NoDuplicates(rows) ==
  \A a \in rows : \A b \in rows :
    a # b => (a.username # b.username /\ a.email # b.email)

\* C7: uniqueness. No two users share a username or an email, in the
\* committed table and in what an open transaction sees; and a statement
\* that fails (the user manager ends, the script ends or its transaction
\* goes to rollback) leaves the rows as they were.
C7_Uniqueness ==
  /\ [](NoDuplicates(users) /\ NoDuplicates(Visible("tx")))
  /\ [][ ( \/ (mpc' = "crashed" /\ mpc # "crashed")
           \/ (pc' \in {"s8_rollback", "s13a_rollback"} /\ pc' # pc)
           \/ (pc' = "crashed" /\ pc \notin {"crashed", "s8_rollback", "s13a_rollback"}) )
         => (users' = users /\ txIns' = txIns) ]_vars

\* An insert or update of the user manager was rejected for a duplicate.
C7_Witness ==
  /\ mpc = "crashed"
  /\ users # {}

LiveIds == Ids(users \cup txIns)

\* C8: identity stability. The sequence never goes back and lies above every
\* id in use and every id a transaction has assigned, rolled back or not; an
\* id enters the table only fresh from the sequence; and an update (of the
\* script or of updateUser, whose result carries the id that was entered)
\* leaves the set of ids as it was.
C8_Identity ==
  /\ [](\A id \in LiveIds \cup UNION {txIds[t] : t \in Txs} : id < seq)
  /\ [][ /\ seq' >= seq
         /\ (LiveIds' \ LiveIds) \subseteq seq..(seq' - 1)
         /\ (pc \in {"s5", "s10", "s8_update"} /\ pc' # pc) => LiveIds' = LiveIds
         /\ (mpc = "upd_write" /\ mpc' # mpc)
              => /\ LiveIds' = LiveIds
                 /\ mOut'.msg = "updated" => Ids(mOut'.rows) = {mId} ]_vars

\* After the step-8 transaction rolled its insert back, a later insert has
\* put a user with a larger id into the table.
C8_Witness ==
  /\ txState["t8"] = "ABORTED"
  /\ newUser # NoValue
  /\ \E u \in users : u.id > newUser[1].id

\* C10: not-found is not an error. When the update of updateUser, or the
\* delete of deleteUser, is issued for an id no user holds, the statement
\* does not raise, the users table stays as it is, and the user manager
\* prints 'No user found' with no table and returns to the menu.
C10_NotFound ==
  [][ /\ (mpc = "upd_write" /\ mpc' # mpc /\ Select(users, Eq("id", mId)) = {})
           => /\ mpc' = "menu"
              /\ mOut' = Printed("notfound", {})
              /\ users' = users
      /\ (mpc = "del_id" /\ mpc' # mpc /\ Select(users, Eq("id", mId')) = {})
           => /\ mpc' = "menu"
              /\ mOut' = Printed("notfound", {})
              /\ users' = users ]_vars

\* updateUser found its user, issued the update and printed 'No user found'.
C10_Witness ==
  /\ mpc = "menu"
  /\ mFound # NoValue
  /\ mOut = Printed("notfound", {})

\* C14: updateUser reads, then writes, outside any transaction. While it
\* waits for the new values it holds the user it selected by the id entered;
\* and when that user has been deleted by the time the update is issued, the
\* update changes no row, brings no row with that id back, takes nothing
\* from the sequence, and updateUser prints 'No user found' and no user.
C14_StaleUpdate ==
  /\ [](mpc = "upd_write" => (mFound # NoValue /\ mFound.id = mId))
  /\ [][ (mpc = "upd_write" /\ mpc' # mpc /\ mId \notin Ids(users))
           => /\ users' = users
              /\ txIns' = txIns
              /\ seq' = seq
              /\ mId \notin Ids(users')
              /\ mOut'.msg = "notfound"
              /\ mOut'.rows = {}
              /\ mpc' = "menu" ]_vars

\* updateUser selected bob, step 6 of the walkthrough deleted him, and the
\* update that followed printed 'No user found'.
C14_Witness ==
  /\ mpc = "menu"
  /\ mFound # NoValue
  /\ mFound.email = "bob@example.com"
  /\ mId = 4
  /\ mOut.msg = "notfound"
  /\ pc \notin {"s1", "s2", "s3", "s4", "s5", "s6"}
  /\ \A u \in users : u.id # 4

\* The users other than the one with this id
Others(rows, id) == {u \in rows : u.id # id}

\* C15: frame of the user manager. The update of updateUser and the delete
\* of deleteUser change or remove at most one user and leave the users with
\* another id as they are; the listing (alone or ahead of an update or a
\* delete), the select of updateUser and the search leave the table as it
\* is; so does an addUser or updateUser that is rejected; and no step of the
\* user manager touches the writes of an open transaction.
C15_Frame ==
  [][ /\ (mpc = "upd_write" /\ mpc' # mpc)
           => /\ Others(users', mId) = Others(users, mId)
              /\ Cardinality(users \ users') <= 1
              /\ Cardinality(users' \ users) <= 1
      /\ (mpc = "del_id" /\ mpc' # mpc)
           => /\ Others(users', mId') = Others(users, mId')
              /\ users' \subseteq users
              /\ Cardinality(users \ users') <= 1
      /\ (mOps' # mOps /\ mOut'.msg \in {"view", "search"}) => users' = users
      /\ (mpc = "upd_id" /\ mpc' # mpc) => users' = users
      /\ (mpc' = "crashed" /\ mpc # "crashed") => users' = users
      /\ (mpc' # mpc \/ mOps' # mOps) => (txIns' = txIns /\ txDel' = txDel) ]_vars

\* deleteUser removed the user with the id entered and the table still holds
\* five users or more.
C15_Witness ==
  /\ mpc = "menu"
  /\ mOut.msg = "deleted"
  /\ Ids(mOut.rows) = {mId}
  /\ mId \notin Ids(users)
  /\ Cardinality(users) >= 5

----------------------------------------------------------------------------
(* SpecBatch: one batched insert, as in step 2, for every small batch and   *)
(* every small table                                                        *)

BatchValues == [email : {"a@x.com", "b@x.com"}, username : {"a", "b"}]

Batches == UNION {[1..n -> BatchValues] : n \in 1..MaxBatch}

\* Tables the insert may meet: any of these two users
StoredUsers ==
  SUBSET {[id |-> 1, username |-> "a", email |-> "c@x.com", age |-> 30],
          [id |-> 2, username |-> "d", email |-> "b@x.com", age |-> 25]}

InitBatch ==
  /\ users \in StoredUsers
  /\ seq = 3
  /\ arg \in {[vals |-> b, before |-> users] : b \in Batches}
  /\ pc = "batch"
  /\ txState = [t \in Txs |-> "NONE"]
  /\ txIns = {}
  /\ txDel = {}
  /\ txIds = [t \in Txs |-> {}]
  /\ txOps = [t \in Txs |-> 0]
  /\ i = 1
  /\ newUser = NoValue
  /\ updatedUser = {}
  /\ transactionResult = Undefined
  /\ out = NoValue
  /\ mpc = "menu"
  /\ mId = 0
  /\ mFound = NoValue
  /\ mOut = Printed("none", {})
  /\ mReadOpen = {}
  /\ mOps = 0
  /\ categories = {}
  /\ tasks = {}

BatchInsert == InsertStep("batch", arg.vals, "batch_done")

NextBatch == BatchInsert

SpecBatch == InitBatch /\ [][NextBatch]_vars

\* Some record of the batch has the username or the email of a stored user
\* or of another record of the batch.
BatchViolates(vals, before) ==
  \/ \E k \in 1..Len(vals) : \E r \in before :
       vals[k].username = r.username \/ vals[k].email = r.email
  \/ \E j \in 1..Len(vals) : \E k \in 1..Len(vals) :
       j # k /\ (vals[j].username = vals[k].username \/ vals[j].email = vals[k].email)

\* C6: batched insert is all-or-nothing. A batch with a record that repeats
\* a username or email, of the table or of the batch, is rejected and the
\* table is as before; any other batch is inserted whole, and what is
\* returned is, in input order, one record per input with its fields, the
\* default age, and its own new id, all of them now in the table.
C6_BatchAllOrNothing ==
  /\ pc = "crashed"
       => (BatchViolates(arg.vals, arg.before) /\ users = arg.before)
  /\ pc = "batch_done"
       => /\ ~BatchViolates(arg.vals, arg.before)
          /\ Len(out) = Len(arg.vals)
          /\ \A k \in 1..Len(out) :
               /\ out[k].username = arg.vals[k].username
               /\ out[k].email = arg.vals[k].email
               /\ out[k].age = DefaultAge
               /\ out[k].id \notin Ids(arg.before)
               /\ \A j \in 1..Len(out) : j # k => out[j].id # out[k].id
          /\ users = arg.before \cup SeqToSet(out)

\* The batch {a@x.com, a}, {a@x.com, b} was rejected.
C6_Witness ==
  /\ pc = "crashed"
  /\ arg.vals = <<[email |-> "a@x.com", username |-> "a"],
                  [email |-> "a@x.com", username |-> "b"]>>
  /\ users = arg.before

----------------------------------------------------------------------------
(* SpecPage: the query of step 13b issued page after page, for every small  *)
(* table and page size                                                      *)

PageAges == {20, 30}

\* Tables of n users whose ages are drawn from PageAges
PageTables ==
  UNION {{ {[id |-> k, username |-> "user" \o ToString(k),
             email |-> "user" \o ToString(k) \o "@example.com", age |-> a[k]] : k \in 1..n}
           : a \in [1..n -> PageAges]} : n \in 0..MaxRows}

InitPage ==
  /\ users \in PageTables
  /\ seq = MaxRows + 1
  /\ arg \in {[limit |-> L, offset |-> 0, page |-> <<>>] : L \in 1..MaxLimit}
  /\ pc = "page"
  /\ i = 1
  /\ out = <<>>
  /\ txState = [t \in Txs |-> "NONE"]
  /\ txIns = {}
  /\ txDel = {}
  /\ txIds = [t \in Txs |-> {}]
  /\ txOps = [t \in Txs |-> 0]
  /\ newUser = NoValue
  /\ updatedUser = {}
  /\ transactionResult = Undefined
  /\ mpc = "menu"
  /\ mId = 0
  /\ mFound = NoValue
  /\ mOut = Printed("none", {})
  /\ mReadOpen = {}
  /\ mOps = 0
  /\ categories = {}
  /\ tasks = {}

\* Page i is fetched with offset (i - 1) * limit and appended to the pages
\* before it; the page that starts at or after the end is the last one.
FetchPage ==
  /\ pc = "page"
  /\ LET offset == (i - 1) * arg.limit IN
       /\ \E page \in Paginated(Visible("db"), arg.limit, offset) :
            /\ arg' = [arg EXCEPT !.offset = offset, !.page = page]
            /\ out' = out \o page
       /\ pc' = IF offset >= Cardinality(users) THEN "page_done" ELSE "page"
  /\ i' = i + 1
  /\ UNCHANGED storeVars
  /\ UNCHANGED <<txState, txIds, txOps, newUser, updatedUser, transactionResult>>
  /\ UNCHANGED <<mpc, mId, mFound, mOut, mReadOpen, mOps>>
  /\ UNCHANGED taskVars

NextPage == FetchPage

SpecPage == InitPage /\ [][NextPage]_vars

Max(a, b) == IF a >= b THEN a ELSE b

\* The number of records the last fetched page holds is
\* max(0, min(L, S - O)), and none when O >= S.
PageCount ==
  i > 1 => Len(arg.page) = IF arg.offset < Cardinality(users)
                           THEN Max(0, Min(arg.limit, Cardinality(users) - arg.offset))
                           ELSE 0

\* C9: pagination. Each page holds max(0, min(L, S - O)) records, none when
\* O >= S, and the pages fetched by stepping the offset by L, put end to end,
\* are the users ordered by age descending, each record once.
C9_Pagination ==
  /\ PageCount
  /\ pc = "page_done" => out \in OrderByAgeDesc(users)

----------------------------------------------------------------------------
(* SpecDelete: the delete of step 6 followed by a find with the same        *)
(* predicate, and the delete of step 1, for every small table               *)

\* Predicates over the users of PageTables
DeletePredicates ==
  << All,
     Eq("email", "user2@example.com"),
     Eq("id", 1),
     Gt("age", 20),
     Lte("age", 20),
     Like("username", "%2"),
     Like("username", "user_"),
     And(Gte("age", 30), Like("username", "%1%")),
     Or(Eq("id", 3), Lt("age", 30)),
     Eq("username", "nobody") >>

InitDelete ==
  /\ users \in PageTables
  /\ seq = MaxRows + 1
  /\ arg \in {[p |-> k, before |-> users] : k \in 1..Len(DeletePredicates)}
  /\ pc \in {"s1", "del"}
  /\ i = 1
  /\ out = NoValue
  /\ txState = [t \in Txs |-> "NONE"]
  /\ txIns = {}
  /\ txDel = {}
  /\ txIds = [t \in Txs |-> {}]
  /\ txOps = [t \in Txs |-> 0]
  /\ newUser = NoValue
  /\ updatedUser = {}
  /\ transactionResult = Undefined
  /\ mpc = "menu"
  /\ mId = 0
  /\ mFound = NoValue
  /\ mOut = Printed("none", {})
  /\ mReadOpen = {}
  /\ mOps = 0
  /\ categories = {}
  /\ tasks = {}

DeleteWhere == DeleteStep("del", DeletePredicates[arg.p], "del_find")

FindWhere == ReadStep("del_find", DeletePredicates[arg.p], "del_done")

NextDelete == Step1 \/ DeleteWhere \/ FindWhere

SpecDelete == InitDelete /\ [][NextDelete]_vars

\* C11: delete then find. The delete returns, as they were before it, exactly
\* the records that matched the predicate, removes these and no others, and
\* the find with the same predicate issued right after it returns nothing;
\* the delete without a predicate leaves the table empty.
C11_DeleteThenFind ==
  /\ pc = "del_find"
       => /\ out = {r \in arg.before : Eval(DeletePredicates[arg.p], r)}
          /\ users = arg.before \ out
  /\ pc = "del_done" => out = {}
  /\ pc = "s2" => users = {}

\* Two of three users were deleted and the find that followed is empty.
C11_Witness ==
  /\ pc = "del_done"
  /\ Cardinality(arg.before) = 3
  /\ Cardinality(users) = 1
  /\ out = {}

----------------------------------------------------------------------------
(* Schema: categories and tasks. The two programs only read these tables    *)
(* (the left joins of the earlier walkthrough); SpecTasks lets a client of  *)
(* the schema issue the statements the schema constrains.                   *)

MaxCategories == 2   \* ids a category may take (SpecTasks)
MaxTasks == 2        \* ids a task may take (SpecTasks)

\* category_id is nullable: no category, or the id of one
Absent == {}
Ref(id) == {id}

CategoryNames == {"work", "home"}

\* What a client passes to insert(tasks).values(...)
TaskValues ==
  {[title |-> "write"], [title |-> "write", done |-> TRUE]}
    \cup {[title |-> "write", categoryId |-> c] : c \in 1..MaxCategories}

\* The row the store creates: done defaults to false, created_at to now(),
\* category_id to null.
MakeTask(v, id) ==
  [id |-> id, title |-> v.title,
   done |-> IF "done" \in DOMAIN v THEN v.done ELSE FALSE,
   createdAt |-> "now",
   categoryId |-> IF "categoryId" \in DOMAIN v THEN Ref(v.categoryId) ELSE Absent]

\* primary key on id, categories_name_key on name
CategoryClash(a, b) == a.id = b.id \/ a.name = b.name

\* tasks_category_id_fkey: category_id is null or the id of a category
ForeignKeyHolds(cats, t) == t.categoryId \subseteq {c.id : c \in cats}

\* OnDelete as it would be were the foreign key declared onDelete('cascade')
OnDeleteCascade(ts, id) == {t \in ts : t.categoryId # Ref(id)}

\* onDelete('set null'): what becomes of the tasks when category id is deleted
OnDelete(ts, id) ==
  {IF t.categoryId = Ref(id) THEN [t EXCEPT !.categoryId = Absent] ELSE t : t \in ts}

Done(stmt, ok) == [stmt |-> stmt, ok |-> ok]

insertCategory ==
  /\ pc = "tasks"
  /\ \E id \in 1..MaxCategories, name \in CategoryNames :
       LET row == [id |-> id, name |-> name]
           ok  == \A c \in categories : ~CategoryClash(row, c)
       IN  /\ categories' = IF ok THEN categories \cup {row} ELSE categories
           /\ out' = Done("insertCategory", ok)
  /\ arg' = NoValue
  /\ UNCHANGED tasks
  /\ UNCHANGED <<storeVars, pc, txState, txIds, txOps, i, newUser, updatedUser, transactionResult>>
  /\ UNCHANGED <<mpc, mId, mFound, mOut, mReadOpen, mOps>>

insertTask ==
  /\ pc = "tasks"
  /\ \E id \in 1..MaxTasks, v \in TaskValues :
       LET row == MakeTask(v, id)
           ok  == /\ \A t \in tasks : t.id # id
                  /\ ForeignKeyHolds(categories, row)
       IN  /\ tasks' = IF ok THEN tasks \cup {row} ELSE tasks
           /\ out' = Done("insertTask", ok)
  /\ arg' = NoValue
  /\ UNCHANGED categories
  /\ UNCHANGED <<storeVars, pc, txState, txIds, txOps, i, newUser, updatedUser, transactionResult>>
  /\ UNCHANGED <<mpc, mId, mFound, mOut, mReadOpen, mOps>>

\* update(tasks).set({categoryId}).where(eq(tasks.id, id))
updateTaskCategory ==
  /\ pc = "tasks"
  /\ \E id \in 1..MaxTasks, c \in {Absent} \cup {Ref(k) : k \in 1..MaxCategories} :
       LET new == {IF t.id = id THEN [t EXCEPT !.categoryId = c] ELSE t : t \in tasks}
           ok  == \A t \in new : ForeignKeyHolds(categories, t)
       IN  /\ tasks' = IF ok THEN new ELSE tasks
           /\ out' = Done("updateTask", ok)
  /\ arg' = NoValue
  /\ UNCHANGED categories
  /\ UNCHANGED <<storeVars, pc, txState, txIds, txOps, i, newUser, updatedUser, transactionResult>>
  /\ UNCHANGED <<mpc, mId, mFound, mOut, mReadOpen, mOps>>

\* delete(tasks).where(eq(tasks.id, id))
deleteTask ==
  /\ pc = "tasks"
  /\ \E id \in 1..MaxTasks :
       /\ tasks' = {t \in tasks : t.id # id}
       /\ out' = Done("deleteTask", TRUE)
  /\ arg' = NoValue
  /\ UNCHANGED categories
  /\ UNCHANGED <<storeVars, pc, txState, txIds, txOps, i, newUser, updatedUser, transactionResult>>
  /\ UNCHANGED <<mpc, mId, mFound, mOut, mReadOpen, mOps>>

\* delete(categories).where(eq(categories.id, id)); arg keeps the id and the
\* tasks the statement met
deleteCategory ==
  /\ pc = "tasks"
  /\ \E id \in 1..MaxCategories :
       /\ categories' = {c \in categories : c.id # id}
       /\ tasks' = IF \E c \in categories : c.id = id THEN OnDelete(tasks, id) ELSE tasks
       /\ arg' = [id |-> id, tasks |-> tasks]
  /\ out' = Done("deleteCategory", TRUE)
  /\ UNCHANGED <<storeVars, pc, txState, txIds, txOps, i, newUser, updatedUser, transactionResult>>
  /\ UNCHANGED <<mpc, mId, mFound, mOut, mReadOpen, mOps>>

\* select({taskId, taskName, categoryName, taskDone}).from(tasks)
\*   .leftJoin(categories, eq(tasks.categoryId, categories.id))
taskWithCategories ==
  /\ pc = "tasks"
  /\ out' = [stmt |-> "leftJoin",
             rows |-> {[taskId |-> t.id, taskName |-> t.title,
                        categoryName |-> {c.name : c \in {c \in categories : Ref(c.id) = t.categoryId}},
                        taskDone |-> t.done] : t \in tasks}]
  /\ arg' = NoValue
  /\ UNCHANGED taskVars
  /\ UNCHANGED <<storeVars, pc, txState, txIds, txOps, i, newUser, updatedUser, transactionResult>>
  /\ UNCHANGED <<mpc, mId, mFound, mOut, mReadOpen, mOps>>

InitTasks ==
  /\ categories = {}
  /\ tasks = {}
  /\ pc = "tasks"
  /\ out = NoValue
  /\ arg = NoValue
  /\ users = {}
  /\ seq = 1
  /\ txState = [t \in Txs |-> "NONE"]
  /\ txIns = {}
  /\ txDel = {}
  /\ txIds = [t \in Txs |-> {}]
  /\ txOps = [t \in Txs |-> 0]
  /\ i = 1
  /\ newUser = NoValue
  /\ updatedUser = {}
  /\ transactionResult = Undefined
  /\ mpc = "menu"
  /\ mId = 0
  /\ mFound = NoValue
  /\ mOut = Printed("none", {})
  /\ mReadOpen = {}
  /\ mOps = 0

NextTasks ==
  \/ insertCategory \/ insertTask \/ updateTaskCategory \/ deleteTask
  \/ deleteCategory \/ taskWithCategories

SpecTasks == InitTasks /\ [][NextTasks]_vars

\* C12: referential integrity of tasks. Each task's categoryId is absent or
\* the id of a category that exists; and whenever categories are removed, no
\* task is removed, the tasks that referenced a removed category have
\* categoryId absent, and every other task and every other field is as before.
C12_Referential ==
  /\ [](\A t \in tasks : t.categoryId = {} \/ \E c \in categories : t.categoryId = {c.id})
  /\ [][ (categories' # categories /\ categories' \subseteq categories)
           => LET gone == {c.id : c \in categories \ categories'} IN
              /\ Cardinality(tasks') = Cardinality(tasks)
              /\ \A t \in tasks : \E u \in tasks' :
                   /\ u.id = t.id /\ u.title = t.title
                   /\ u.done = t.done /\ u.createdAt = t.createdAt
                   /\ u.categoryId = IF t.categoryId \cap gone # {} THEN {} ELSE t.categoryId
         ]_vars

\* Category 1 was deleted while one task referenced it and another referenced
\* category 2: the first has no category now, the second still has its own.
C12_Witness ==
  /\ out = Done("deleteCategory", TRUE)
  /\ arg.id = 1
  /\ \E t \in arg.tasks : t.categoryId = {1} /\ [t EXCEPT !.categoryId = {}] \in tasks
  /\ \E t \in arg.tasks : t.categoryId = {2} /\ t \in tasks

----------------------------------------------------------------------------
(* SpecSearch: one select with a composed filter, as in step 11, and the    *)
(* query of searchUser, for every small table                               *)

\* Tables the query may meet: any of these users
SearchTables ==
  SUBSET {[id |-> 1, username |-> "eve", email |-> "eve@example.com", age |-> 25],
          [id |-> 2, username |-> "steve", email |-> "steve@example.com", age |-> 40],
          [id |-> 3, username |-> "bob", email |-> "bob@example.com", age |-> 30],
          [id |-> 4, username |-> "a_b", email |-> "ab@example.com", age |-> 18]}

\* Filters to compose
Filters ==
  << Like("username", "%eve%"), Gt("age", 18), Lt("age", 30),
     Eq("username", "bob"), Gte("age", 30) >>

\* The ways two or three filters are put together
Composed(kind, P, Q, R) ==
  CASE kind = "and"       -> And(P, Q)
    [] kind = "or"        -> Or(P, Q)
    [] kind = "and_left"  -> And(And(P, Q), R)
    [] kind = "and_right" -> And(P, And(Q, R))
    [] kind = "or_left"   -> Or(Or(P, Q), R)
    [] kind = "or_right"  -> Or(P, Or(Q, R))

Kinds == {"and", "or", "and_left", "and_right", "or_left", "or_right"}

\* What is typed at the prompts of searchUser: any text, a minimum that is
\* not negative, a maximum not below it
SearchInputs ==
  {in \in [username : {"eve", "b", "", "_", "%"}, minAge : {0, 18, 30}, maxAge : {25, 30, 100}] :
     in.maxAge >= in.minAge}

InitSearch ==
  /\ users \in SearchTables
  /\ seq = 5
  /\ \/ /\ pc = "compose"
        /\ arg \in [kind : Kinds, p : 1..Len(Filters), q : 1..Len(Filters), r : 1..Len(Filters)]
     \/ /\ pc = "search"
        /\ arg \in SearchInputs
  /\ i = 1
  /\ out = NoValue
  /\ txState = [t \in Txs |-> "NONE"]
  /\ txIns = {}
  /\ txDel = {}
  /\ txIds = [t \in Txs |-> {}]
  /\ txOps = [t \in Txs |-> 0]
  /\ newUser = NoValue
  /\ updatedUser = {}
  /\ transactionResult = Undefined
  /\ mpc = "menu"
  /\ mId = 0
  /\ mFound = NoValue
  /\ mOut = Printed("none", {})
  /\ mReadOpen = {}
  /\ mOps = 0
  /\ categories = {}
  /\ tasks = {}

FindComposed ==
  ReadStep("compose", Composed(arg.kind, Filters[arg.p], Filters[arg.q], Filters[arg.r]),
           "composed")

\* The query of searchUser for the typed username, minAge and maxAge
SearchWith ==
  /\ pc = "search"
  /\ MgrRead("search", SearchPredicate(arg.username, arg.minAge, arg.maxAge))
  /\ pc' = "searched"
  /\ UNCHANGED <<mpc, mId, mFound, mOps, arg>>
  /\ UNCHANGED storeVars
  /\ UNCHANGED <<txState, txIds, txOps, i, newUser, updatedUser, transactionResult, out>>
  /\ UNCHANGED taskVars

NextSearch == FindComposed \/ SearchWith

SpecSearch == InitSearch /\ [][NextSearch]_vars

\* The users a single filter matches
Matching(k) == Select(users, Filters[k])

\* and(P, Q) matches the intersection and or(P, Q) the union of what P and Q
\* match, whichever way round and however nested.
Composition ==
  pc = "composed" =>
    LET P == Matching(arg.p)
        Q == Matching(arg.q)
        R == Matching(arg.r)
    IN  /\ arg.kind = "and" => out = P \cap Q
        /\ arg.kind = "or" => out = P \cup Q
        /\ arg.kind \in {"and_left", "and_right"} => out = P \cap Q \cap R
        /\ arg.kind \in {"or_left", "or_right"} => out = P \cup Q \cup R

\* t occurs in s
Contains(s, t) ==
  \E k \in 1..(Len(s) - Len(t) + 1) : SubSeq(s, k, k + Len(t) - 1) = t

\* C13: predicate composition. and(P, Q) matches the intersection and
\* or(P, Q) the union, independent of argument order and of nesting; and the
\* user search returns exactly the users whose username contains the typed
\* text and whose age lies between the typed minimum and maximum.
C13_PredicateComposition ==
  /\ Composition
  /\ pc = "searched"
       => mOut.rows = {u \in users : /\ Contains(u.username, arg.username)
                                     /\ u.age >= arg.minAge
                                     /\ u.age <= arg.maxAge}

====
